---- MODULE Spec2Model ----
(***************************************************************************)
(* Model of the Markdown renderer of package markdown (main.go).           *)
(*                                                                         *)
(* The output stream w and every byte slice are sequences of one-byte      *)
(* strings.  The renderer's fields are the variables listDepth,            *)
(* orderedListCounter, paragraph,                                          *)
(* lastNormalText, lastOutputLen and Terminal (opts.Terminal); w is the    *)
(* bytes written to the io.Writer so far.  The tree walk of md.Render is   *)
(* the variable stack (the containers entered and not yet left); every     *)
(* action is one RenderNode callback of the walk.  markers (the ordinals   *)
(* listItem printed), formatCalls (the calls of format.Source) and last    *)
(* (the latest callback) record what happened and are read by no handler.  *)
(* RenderNodeHook tells whether opts.RenderNodeHook is set; pc is the      *)
(* position of the run (Process reading and parsing, md.Render walking,    *)
(* the walk stopped, Process returned) and proc is the data of Process.    *)
(***************************************************************************)
EXTENDS Integers, Sequences, FiniteSets, TLC

VARIABLES w, listDepth, orderedListCounter, paragraph, lastNormalText,
          lastOutputLen, Terminal, stack, nvisits, budget, last,
          markers, formatCalls, RenderNodeHook, pc, proc

vars == <<w, listDepth, orderedListCounter, paragraph, lastNormalText,
          lastOutputLen, Terminal, stack, nvisits, budget, last,
          markers, formatCalls, RenderNodeHook, pc, proc>>

(***************************************************************************)
(* Bytes.  BQ stands for the one byte 0x60 (backquote) and ESC for the one *)
(* byte 0x1b; every other byte is written as itself.                       *)
(***************************************************************************)
NL == "\n"
CR == "\r"
TAB == "\t"
SP == " "
BS == "\\"
BQ == "BQ"
ESC == "ESC"

Digits == {"0", "1", "2", "3", "4", "5", "6", "7", "8", "9"}

\* unicode.IsSpace on the bytes the inputs use (strings.Fields separators)
WhiteSpace == {SP, TAB, NL, CR}

(***************************************************************************)
(* Bounds of the model.                                                    *)
(***************************************************************************)
\* callbacks of one walk, the two visits of the Document included
MaxVisits == 4
MaxTextVisits == 3
MaxListVisits == 15
MaxCodeVisits == 3
MaxInlineVisits == 5
\* containers open at once, the Document included
MaxDepth == 5
MaxHookVisits == 4
MaxProcessVisits == 4
MaxLooseVisits == 6

(***************************************************************************)
(* Pure helpers.                                                           *)
(***************************************************************************)

\* fmt's %d verb for a non-negative int: its decimal digits
DigitOf(d) ==
    CASE d = 0 -> "0" [] d = 1 -> "1" [] d = 2 -> "2" [] d = 3 -> "3"
      [] d = 4 -> "4" [] d = 5 -> "5" [] d = 6 -> "6" [] d = 7 -> "7"
      [] d = 8 -> "8" [] d = 9 -> "9"

RECURSIVE Itoa(_)
Itoa(n) == IF n < 10 THEN <<DigitOf(n)>>
           ELSE Itoa(n \div 10) \o <<DigitOf(n % 10)>>

\* map lookup: a missing key reads as the zero value
CounterAt(m, k) == IF k \in DOMAIN m THEN m[k] ELSE 0
FlagAt(m, k) == IF k \in DOMAIN m THEN m[k] ELSE FALSE
\* map assignment m[k] = v
MapSet(m, k, v) == [x \in (DOMAIN m) \cup {k} |-> IF x = k THEN v ELSE m[x]]

RECURSIVE cleanLoop(_, _, _, _)
cleanLoop(s, i, b, p) ==
    IF i > Len(s) THEN b
    ELSE LET q == IF s[i] \in {NL, CR, TAB} THEN SP ELSE s[i]
         IN IF q # SP \/ p # SP
            THEN cleanLoop(s, i + 1, Append(b, q), q)
            ELSE cleanLoop(s, i + 1, b, p)

\* cleanWithoutTrim: p starts as the zero byte, which no input contains
cleanWithoutTrim(s) == cleanLoop(s, 1, <<>>, "NUL")

RECURSIVE escape(_)
escape(text) ==
    IF text = <<>> THEN <<>>
    ELSE (IF Head(text) = BS THEN <<BS, BS>> ELSE <<Head(text)>>)
         \o escape(Tail(text))

isNumber(data) == \A i \in 1..Len(data) : data[i] \in Digits

\* needsEscaping without its case for the angle brackets
needsEscaping_NoAngle(text, lastText) ==
    CASE text \in {<<BS>>, <<BQ>>, <<"*">>, <<"_">>, <<"{">>, <<"}">>,
                   <<"[">>, <<"]">>, <<"(">>, <<")">>, <<"#">>, <<"+">>,
                   <<"-">>} -> TRUE
      [] text = <<"!">> -> FALSE
      [] text = <<".">> -> isNumber(lastText)
      [] OTHER -> FALSE

needsEscaping(text, lastText) ==
    CASE text \in {<<BS>>, <<BQ>>, <<"*">>, <<"_">>, <<"{">>, <<"}">>,
                   <<"[">>, <<"]">>, <<"(">>, <<")">>, <<"#">>, <<"+">>,
                   <<"-">>} -> TRUE
      [] text = <<"!">> -> FALSE
      [] text = <<".">> -> isNumber(lastText)
      [] text \in {<<"<">>, <<">">>} -> TRUE
      [] OTHER -> FALSE

\* strings.Fields: the maximal runs of non-space bytes
RECURSIVE FieldsLoop(_, _, _, _)
FieldsLoop(s, i, cur, acc) ==
    IF i > Len(s) THEN (IF cur = <<>> THEN acc ELSE Append(acc, cur))
    ELSE IF s[i] \in WhiteSpace
         THEN FieldsLoop(s, i + 1, <<>>,
                         IF cur = <<>> THEN acc ELSE Append(acc, cur))
         ELSE FieldsLoop(s, i + 1, Append(cur, s[i]), acc)

Fields(s) == FieldsLoop(s, 1, <<>>, <<>>)

\* bytes.Split(text, "\n"): always at least one element
RECURSIVE SplitLoop(_, _, _, _)
SplitLoop(s, i, cur, acc) ==
    IF i > Len(s) THEN Append(acc, cur)
    ELSE IF s[i] = NL
         THEN SplitLoop(s, i + 1, <<>>, Append(acc, cur))
         ELSE SplitLoop(s, i + 1, Append(cur, s[i]), acc)

SplitLines(text) == SplitLoop(text, 1, <<>>, <<>>)

\* indentwriter.New(w, 1).Write(text): one tab ahead of the first byte of
\* every non-empty line
RECURSIVE IndentLoop(_, _, _, _)
IndentLoop(s, i, wroteIndent, b) ==
    IF i > Len(s) THEN b
    ELSE IF s[i] = NL
         THEN IndentLoop(s, i + 1, FALSE, Append(b, NL))
         ELSE IndentLoop(s, i + 1, TRUE,
                         IF wroteIndent THEN Append(b, s[i])
                         ELSE b \o <<TAB, s[i]>>)

IndentWrite(text) == IndentLoop(text, 1, FALSE, <<>>)

\* strings.Repeat("#", level)
RECURSIVE Repeat(_, _)
Repeat(c, n) == IF n <= 0 THEN <<>> ELSE <<c>> \o Repeat(c, n - 1)

(***************************************************************************)
(* The renderer.  A handler takes the renderer r (a record of the fields,  *)
(* the writer and the two records of what happened) and returns it as the  *)
(* handler leaves it.                                                      *)
(***************************************************************************)

\* r.out and r.outs: write and remember the length of the write
out(r, d) == [r EXCEPT !.w = @ \o d, !.lastOutputLen = Len(d)]

outs(r, s) == [r EXCEPT !.w = @ \o s, !.lastOutputLen = Len(s)]

\* a write that goes to w directly (fmt.Fprintf, indentwriter)
WriteDirect(r, d) == [r EXCEPT !.w = @ \o d]

cr(r) == IF r.lastOutputLen > 0 THEN outs(r, <<NL>>) ELSE r

\* doubleSpace with the condition its body leaves commented out
doubleSpace_Guarded(r) == IF r.lastOutputLen > 0 THEN outs(r, <<NL>>) ELSE r

doubleSpace(r) == outs(r, <<NL>>)

list(r, node) ==
    LET r1 == doubleSpace(r)
        r2 == [r1 EXCEPT !.listDepth = @ + 1]
        r3 == IF node.ordered
              THEN [r2 EXCEPT !.orderedListCounter = MapSet(@, r2.listDepth, 1)]
              ELSE r2
    IN  \* the deferred r.listDepth-- runs when list returns
        [r3 EXCEPT !.listDepth = @ - 1]

listItem(r, node) ==
    LET text == node.Literal
        n == CounterAt(r.orderedListCounter, r.listDepth)
        r1 == IF node.ordered
              THEN LET a == WriteDirect(r, Itoa(n) \o <<".">>)
                       b == WriteDirect(a, IndentWrite(text))
                   IN [b EXCEPT !.orderedListCounter = MapSet(@, r.listDepth, n + 1),
                                !.markers = Append(@, n)]
              ELSE WriteDirect(outs(r, <<"-">>), IndentWrite(text))
        r2 == outs(r1, <<NL>>)
    IN  IF FlagAt(r2.paragraph, r2.listDepth)
        THEN LET r3 == IF ~node.endOfList THEN outs(r2, <<NL>>) ELSE r2
             IN [r3 EXCEPT !.paragraph = MapSet(@, r3.listDepth, FALSE)]
        ELSE r2

horizontalRule(r) == outs(doubleSpace(r), <<"-", "-", "-", NL>>)

heading(r, node) ==
    LET r1 == doubleSpace(r)
    IN IF node.Level >= 3
       THEN outs(r1, Repeat("#", node.Level) \o <<SP>>)
       ELSE r1

htmlSpan(r, node) == out(r, node.Literal)

htmlBlock(r, node) == outs(out(doubleSpace(r), node.Literal), <<NL>>)

doParagraph(r, node) ==
    LET r1 == doubleSpace(r)
        r2 == [r1 EXCEPT !.paragraph = MapSet(@, r1.listDepth, TRUE)]
    IN outs(r2, <<NL>>)

\* formatCode that does not test err
formatCode_IgnoreError(lang, text, gofmt) ==
    IF lang \in {<<"G", "o">>, <<"g", "o">>}
    THEN [code |-> gofmt.code, ok |-> TRUE, called |-> TRUE]
    ELSE [code |-> <<>>, ok |-> FALSE, called |-> FALSE]

\* gofmt is what format.Source(text) returns: [ok, code].  called records
\* whether format.Source was invoked.
formatCode(lang, text, gofmt) ==
    IF lang \in {<<"G", "o">>, <<"g", "o">>}
    THEN IF ~gofmt.ok
         THEN [code |-> <<>>, ok |-> FALSE, called |-> TRUE]
         ELSE [code |-> gofmt.code, ok |-> TRUE, called |-> TRUE]
    ELSE [code |-> <<>>, ok |-> FALSE, called |-> FALSE]

\* the loop of codeBlock over strings.Fields(lang): the first element that
\* is not empty once a leading "." is cut, or <<>> when there is none
StripDot(elt) == IF elt[1] = "." THEN Tail(elt) ELSE elt

FenceTag(lang) ==
    LET fs == Fields(lang)
        idx == {i \in 1..Len(fs) : StripDot(fs[i]) # <<>>}
    IN IF idx = {} THEN <<>>
       ELSE StripDot(fs[CHOOSE i \in idx : \A j \in idx : i <= j])

codeBlock(r, node, gofmt) ==
    LET text == node.Literal
        lang == node.Info
        elt == FenceTag(lang)
        r1 == doubleSpace(r)
        r2 == IF elt # <<>>
              THEN outs(outs(r1, <<BQ, BQ, BQ>>), elt)
              ELSE outs(r1, <<BQ, BQ, BQ>>)
        r3 == outs(r2, <<NL>>)
        f == formatCode(lang, text, gofmt)
        r4 == IF f.ok THEN out(r3, f.code) ELSE out(r3, text)
        r5 == outs(r4, <<BQ, BQ, BQ, NL>>)
    IN [r5 EXCEPT !.formatCalls = IF f.called THEN @ + 1 ELSE @]

code(r, node) == outs(out(outs(r, <<BQ>>), node.Literal), <<BQ>>)

\* the tail shared by image and link: destination, optional title, ")"
LinkTail(r, node) ==
    LET r1 == out(r, escape(node.Destination))
        r2 == IF Len(node.Title) # 0
              THEN outs(out(outs(r1, <<SP, "\"">>), node.Title), <<"\"">>)
              ELSE r1
    IN outs(r2, <<")">>)

image(r, node) ==
    LET alt == <<>>
    IN LinkTail(outs(out(outs(r, <<"!", "[">>), alt), <<"]", "(">>), node)

link(r, node) ==
    LinkTail(outs(out(outs(r, <<"[">>), node.Literal), <<"]", "(">>), node)

RECURSIVE QuoteLines(_, _, _)
QuoteLines(r, lines, i) ==
    IF i > Len(lines) THEN r
    ELSE IF i = Len(lines) THEN QuoteLines(r, lines, i + 1)
    ELSE LET r1 == outs(r, <<">">>)
             r2 == IF Len(lines[i]) # 0
                   THEN out(outs(r1, <<SP>>), lines[i])
                   ELSE r1
         IN QuoteLines(outs(r2, <<NL>>), lines, i + 1)

blockQuote(r, node) == QuoteLines(doubleSpace(r), SplitLines(node.Literal), 1)

del(r, node) == outs(out(outs(r, <<"~", "~">>), node.Literal), <<"~", "~">>)

strong(r, node) ==
    LET r1 == IF r.Terminal THEN outs(r, <<ESC, "[", "1", "m">>) ELSE r
        r2 == outs(out(outs(r1, <<"*", "*">>), node.Literal), <<"*", "*">>)
    IN IF r.Terminal THEN outs(r2, <<ESC, "[", "0", "m">>) ELSE r2

\* emphasis without the test for empty content
emphasis_NoEmptyCheck(r, node) ==
    outs(out(outs(r, <<"*">>), node.Literal), <<"*">>)

emphasis(r, node) ==
    IF Len(node.Literal) = 0 THEN r
    ELSE outs(out(outs(r, <<"*">>), node.Literal), <<"*">>)

\* both returns of skipSpaceIfNeededNormalText are false
skipSpaceIfNeededNormalText(cleanString) ==
    IF cleanString[1] # SP THEN FALSE ELSE FALSE

text(r, node) ==
    LET normalText == node.Literal
        lit == IF needsEscaping(node.Literal, r.lastNormalText)
               THEN <<BS>> \o node.Literal
               ELSE node.Literal
        r1 == [r EXCEPT !.lastNormalText = normalText]
    IN IF r1.listDepth > 0 /\ lit = <<NL>> THEN r1
       ELSE LET cleanString == cleanWithoutTrim(lit)
            IN IF cleanString = <<>> THEN r1
               ELSE IF skipSpaceIfNeededNormalText(cleanString)
                    THEN outs(r1, Tail(cleanString))
                    ELSE outs(r1, cleanString)

\* ast.WalkStatus
GoToNext == "GoToNext"

SkipChildren == "SkipChildren"

Terminate == "Terminate"

\* what one call of a RenderNodeHook can do: the bytes it writes to w
\* itself, the status and the didHandle flag it returns
HookOutcomes ==
    {[didHandle |-> FALSE, status |-> GoToNext, bytes |-> <<>>],
     [didHandle |-> TRUE, status |-> GoToNext, bytes |-> <<"h">>],
     [didHandle |-> TRUE, status |-> SkipChildren, bytes |-> <<>>],
     [didHandle |-> TRUE, status |-> Terminate, bytes |-> <<>>]}

\* no hook is called
NoHook == [didHandle |-> FALSE, status |-> GoToNext, bytes |-> <<>>]

\* the type switch of RenderNode; entering is not read.  The result is the
\* renderer after the handler of the node's kind ran.
NodeSwitch(r, node, entering, gofmt) ==
    LET k == node.kind
    IN CASE k = "Text" -> text(r, node)
         [] k = "Softbreak" -> cr(r)
         [] k = "Hardbreak" -> outs(r, <<SP, SP, NL>>)
         [] k = "Emph" -> emphasis(r, node)
         [] k = "Strong" -> strong(r, node)
         [] k = "Del" -> del(r, node)
         [] k = "BlockQuote" -> blockQuote(r, node)
         [] k = "Link" -> link(r, node)
         [] k = "Image" -> image(r, node)
         [] k = "Code" -> code(r, node)
         [] k = "CodeBlock" -> codeBlock(r, node, gofmt)
         [] k = "Document" -> r
         [] k = "Paragraph" -> doParagraph(r, node)
         [] k = "HTMLSpan" -> htmlSpan(r, node)
         [] k = "HTMLBlock" -> htmlBlock(r, node)
         [] k = "Heading" -> heading(r, node)
         [] k = "HorizontalRule" -> horizontalRule(r)
         [] k = "List" -> list(r, node)
         [] k = "ListItem" -> listItem(r, node)
         [] OTHER -> r

\* RenderNode when the didHandle flag of the hook is not honoured
RenderNode_RendersHandled(r, node, entering, gofmt, h) ==
    IF r.RenderNodeHook
    THEN [r |-> NodeSwitch(WriteDirect(r, h.bytes), node, entering, gofmt),
          status |-> IF h.didHandle THEN h.status ELSE GoToNext]
    ELSE [r |-> NodeSwitch(r, node, entering, gofmt), status |-> GoToNext]

\* RenderNode when a kind without a case makes the walk skip the subtree
RenderNode_SkipsUnknown(r, node, entering, gofmt, h) ==
    IF r.RenderNodeHook /\ h.didHandle
    THEN [r |-> WriteDirect(r, h.bytes), status |-> h.status]
    ELSE [r |-> NodeSwitch(IF r.RenderNodeHook THEN WriteDirect(r, h.bytes)
                           ELSE r, node, entering, gofmt),
          status |-> IF node.kind \in {"Document", "Table"}
                     THEN SkipChildren ELSE GoToNext]

\* RenderNode when the leaving visit of a node renders nothing
RenderNode_OnEntering(r, node, entering, gofmt, h) ==
    IF r.RenderNodeHook /\ h.didHandle
    THEN [r |-> WriteDirect(r, h.bytes), status |-> h.status]
    ELSE LET r0 == IF r.RenderNodeHook THEN WriteDirect(r, h.bytes) ELSE r
         IN [r |-> IF entering THEN NodeSwitch(r0, node, entering, gofmt)
                   ELSE r0,
             status |-> GoToNext]

\* RenderNode: the hook, when one is set, is called first with outcome h;
\* if it handled the node its status is returned, else the type switch
\* runs and GoToNext is returned.  The result is the renderer after the
\* call and the WalkStatus returned.
RenderNode(r, node, entering, gofmt, h) ==
    IF r.RenderNodeHook
    THEN IF h.didHandle
         THEN [r |-> WriteDirect(r, h.bytes), status |-> h.status]
         ELSE [r |-> NodeSwitch(WriteDirect(r, h.bytes), node, entering,
                                gofmt),
               status |-> GoToNext]
    ELSE [r |-> NodeSwitch(r, node, entering, gofmt), status |-> GoToNext]

(***************************************************************************)
(* Nodes.  ListFlags is the pair of bits the renderer tests: ordered       *)
(* (ast.ListTypeOrdered) and endOfList (ast.ListItemEndOfList).            *)
(***************************************************************************)
Node(kind) ==
    [kind |-> kind, Literal |-> <<>>, ordered |-> FALSE, endOfList |-> FALSE,
     Level |-> 0, Destination |-> <<>>, Title |-> <<>>, Info |-> <<>>]

Lit(kind, lit) == [Node(kind) EXCEPT !.Literal = lit]

\* the kinds ast.Walk visits on entering and on leaving
ContainerKinds ==
    {"Document", "Paragraph", "Heading", "List", "ListItem", "BlockQuote",
     "Emph", "Strong", "Del", "Link", "Image", "Table"}

BlockKinds ==
    {"Paragraph", "Heading", "HorizontalRule", "BlockQuote", "HTMLBlock",
     "CodeBlock", "List"}

\* inputs
TextLits == {<<>>, <<"a">>, <<".">>, <<"5">>}

Structural ==
    {BS, BQ, "*", "_", "{", "}", "[", "]", "(", ")", "#", "+", "-", "<", ">"}

EscLits ==
    {<<c>> : c \in Structural} \cup
    {<<>>, <<"!">>, <<".">>, <<"5">>, <<"a">>, <<NL>>, <<SP>>,
     <<"1", "2">>, <<"5", "a">>, <<"a", "*">>, <<"*", "*">>, <<".", ".">>,
     <<"a", SP, TAB, "b">>, <<BS, "#">>}

ContentLits == {<<>>, <<"c">>}

QuoteLits == {<<>>, <<"q", NL>>, <<"q", NL, "r">>, <<NL, "q", NL>>}

HTMLLits == {<<>>, <<"<", "b", ">">>}

CodeLits == {<<>>, <<"x", SP, SP, "y", NL>>}

Go == <<"g", "o">>

InfoStrings ==
    {<<>>, <<"g", "o">>, <<"G", "o">>, <<".", "g", "o">>, <<"G", "O">>,
     <<"p", "y">>, <<"g", "o", SP, "x">>, <<SP, "g", "o">>, <<".">>,
     <<".", SP, "g", "o">>, <<".", "G", "o">>, <<"x", SP, "g", "o">>}


\* what format.Source may return for a text: an error, the text as it is
\* (it was formatted already), or other bytes (the text reformatted)
FormatOutcomes(src) ==
    {[ok |-> FALSE, code |-> <<>>]} \cup
    {[ok |-> TRUE, code |-> c] : c \in {src, <<"x", SP, "y", NL>>}}

NoFormat == [ok |-> FALSE, code |-> <<>>]

Destinations == {<<"u">>, <<"u", BS>>}

Titles == {<<>>, <<"t">>}

Levels == {1, 3}

(***************************************************************************)
(* The walk (ast.WalkFunc called by md.Render): a container is visited on  *)
(* entering and, after its children, on leaving; a leaf is visited once.   *)
(* A frame of stack is an open container: its node, the length of w when   *)
(* it was entered, the number of children entered, its place among its     *)
(* siblings and, for a List, the ordinals its items printed, whether its   *)
(* last item was seen, and the number of ordered Lists nested directly in  *)
(* its items; skip tells that its children are not walked and paras is the *)
(* number of its children that are Paragraphs.                             *)
(***************************************************************************)
Frame(node, start, index) ==
    [node |-> node, start |-> start, index |-> index, kids |-> 0,
     marks |-> <<>>, ended |-> FALSE, sub |-> 0, skip |-> FALSE,
     paras |-> 0]

R ==
    [w |-> w, listDepth |-> listDepth,
     orderedListCounter |-> orderedListCounter, paragraph |-> paragraph,
     lastNormalText |-> lastNormalText, lastOutputLen |-> lastOutputLen,
     Terminal |-> Terminal, markers |-> markers, formatCalls |-> formatCalls,
     RenderNodeHook |-> RenderNodeHook]

Commit(r) ==
    /\ w' = r.w
    /\ listDepth' = r.listDepth
    /\ orderedListCounter' = r.orderedListCounter
    /\ paragraph' = r.paragraph
    /\ lastNormalText' = r.lastNormalText
    /\ lastOutputLen' = r.lastOutputLen
    /\ markers' = r.markers
    /\ formatCalls' = r.formatCalls
    /\ UNCHANGED <<Terminal, budget, RenderNodeHook, proc>>

Top == stack[Len(stack)]

\* the Lists open in a stack
ListsOpen(st) == Cardinality({i \in 1..Len(st) : st[i].node.kind = "List"})

\* the innermost open List of a stack, 0 when there is none
InnerList(st) ==
    LET ls == {i \in 1..Len(st) : st[i].node.kind = "List"}
    IN IF ls = {} THEN 0 ELSE CHOOSE i \in ls : \A j \in ls : j <= i

\* the ordinals a call printed
Printed(r) == SubSeq(r.markers, Len(markers) + 1, Len(r.markers))

\* the outcomes the hook of this Renderer can have at one callback
HookChoices == IF RenderNodeHook THEN HookOutcomes ELSE {NoHook}

CanEnter(node) ==
    /\ pc = "walk"
    /\ nvisits < budget
    /\ IF node.kind = "Document"
       THEN stack = <<>> /\ nvisits = 0
       ELSE /\ stack # <<>>
            /\ ~Top.skip
            /\ node.kind \in ContainerKinds => Len(stack) < MaxDepth
            /\ IF node.kind = "ListItem"
               THEN /\ Top.node.kind = "List"
                    /\ ~Top.ended
                    /\ node.ordered = Top.node.ordered
               ELSE Top.node.kind # "List"

\* the walk after RenderNode(w, node, true) returned res: a container is
\* opened, without children when the status is SkipChildren; on Terminate
\* a container is still closed by its leaving visit and the walk stops
EnterWith(node, gofmt, h, res) ==
    LET n == Len(stack)
        il == InnerList(stack)
        index == IF n = 0 THEN 1 ELSE Top.kids + 1
        st1 == IF n = 0 THEN stack
               ELSE [stack EXCEPT
                       ![n].kids = @ + 1,
                       ![n].paras = IF node.kind = "Paragraph"
                                    THEN @ + 1 ELSE @,
                       ![n].marks = IF node.kind = "ListItem"
                                    THEN @ \o Printed(res.r) ELSE @,
                       ![n].ended = IF node.kind = "ListItem"
                                    THEN node.endOfList ELSE @]
        st2 == IF node.kind = "List" /\ node.ordered /\ il # 0
               THEN [st1 EXCEPT ![il].sub = @ + 1]
               ELSE st1
    IN /\ Commit(res.r)
       /\ stack' = IF node.kind \in ContainerKinds
                    THEN Append(st2, [Frame(node, Len(w), index) EXCEPT
                                        !.skip = res.status # GoToNext])
                    ELSE st2
       /\ pc' = IF res.status # Terminate THEN "walk"
                 ELSE IF node.kind \in ContainerKinds THEN "closing"
                 ELSE "stopped"
       /\ nvisits' = nvisits + 1
       /\ last' = [node |-> node, entering |-> TRUE, status |-> res.status,
                    before |-> Len(w), start |-> Len(w), index |-> index,
                    kids |-> 0, marks |-> Printed(res.r), sub |-> 0,
                    depth |-> ListsOpen(stack'), gofmt |-> gofmt,
                    prevText |-> lastNormalText,
                    called |-> res.r.formatCalls > formatCalls,
                    hook |-> h, handled |-> RenderNodeHook /\ h.didHandle,
                    paras |-> 0]

\* one callback RenderNode(w, node, true)
Enter(node, gofmt) ==
    \E h \in HookChoices :
       EnterWith(node, gofmt, h, RenderNode(R, node, TRUE, gofmt, h))

\* the walk leaves the innermost open container once its children are done
CanLeave(kind) ==
    /\ pc \in {"walk", "closing"}
    /\ stack # <<>>
    /\ Top.node.kind = kind
    /\ nvisits < budget
    /\ kind = "List" => (Top.ended \/ Top.skip)

\* the walk after RenderNode(w, node, false) returned res
LeaveWith(h, res) ==
    LET n == Len(stack)
        st1 == SubSeq(stack, 1, n - 1)
        st2 == IF Top.node.kind = "ListItem"
               THEN [st1 EXCEPT ![n - 1].marks = @ \o Printed(res.r)]
               ELSE st1
    IN /\ Commit(res.r)
       /\ stack' = st2
       /\ pc' = IF pc = "closing" \/ res.status = Terminate
                 THEN "stopped" ELSE "walk"
       /\ nvisits' = nvisits + 1
       /\ last' = [node |-> Top.node, entering |-> FALSE,
                    status |-> res.status, before |-> Len(w),
                    start |-> Top.start, index |-> Top.index,
                    kids |-> Top.kids,
                    marks |-> IF Top.node.kind = "List" THEN Top.marks
                              ELSE Printed(res.r),
                    sub |-> Top.sub, depth |-> ListsOpen(stack),
                    gofmt |-> NoFormat, prevText |-> lastNormalText,
                    called |-> res.r.formatCalls > formatCalls,
                    hook |-> h, handled |-> RenderNodeHook /\ h.didHandle,
                    paras |-> Top.paras]

\* one callback RenderNode(w, node, false), of the innermost open container
Leave ==
    \E h \in HookChoices :
       LeaveWith(h, RenderNode(R, Top.node, FALSE, NoFormat, h))

\* the state of NewRenderer(opts) and of md.Render before the first callback
InitRenderer(b, terminals) ==
    /\ w = <<>>
    /\ listDepth = 0
    /\ orderedListCounter = <<>>
    /\ paragraph = <<>>
    /\ lastNormalText = <<>>
    /\ lastOutputLen = 0
    /\ Terminal \in terminals
    /\ stack = <<>>
    /\ nvisits = 0
    /\ budget = b
    /\ markers = <<>>
    /\ formatCalls = 0
    /\ last = [node |-> Node("None"), entering |-> FALSE, status |-> GoToNext,
                before |-> 0, start |-> 0, index |-> 0, kids |-> 0,
                marks |-> <<>>, sub |-> 0, depth |-> 0, gofmt |-> NoFormat,
                prevText |-> <<>>, called |-> FALSE, hook |-> NoHook,
                handled |-> FALSE, paras |-> 0]

\* an optional byte slice: nil, or the bytes
Nil == [nil |-> TRUE, bytes |-> <<>>]

Bytes(b) == [nil |-> FALSE, bytes |-> b]

\* the data of one call of Process: the src argument, the file named by
\* filename (whether it can be read, and its bytes), the number of times
\* the file was read, the input and error readSource returned, whether the
\* parser ran, and the output and error Process returned
ProcessData(src, file) ==
    [src |-> src, file |-> file, reads |-> 0, input |-> Nil,
     readErr |-> FALSE, parsed |-> FALSE, output |-> Nil, err |-> FALSE]

\* the files a filename can name: readable with its bytes, or failing
\* with the bytes ioutil.ReadFile had read before the failure
Files ==
    {[ok |-> TRUE, data |-> <<>>], [ok |-> TRUE, data |-> <<"a">>],
     [ok |-> FALSE, data |-> <<>>], [ok |-> FALSE, data |-> <<"a">>]}

\* the src arguments: nil, empty but not nil, and some bytes
Sources == {Nil, Bytes(<<>>), Bytes(<<"a">>)}

\* readSource reading the file whether or not src is nil
readSource_AlwaysReads(filename, src) ==
    [input |-> IF filename.ok \/ filename.data # <<>>
               THEN Bytes(filename.data) ELSE Nil,
     err |-> ~filename.ok, reads |-> 1]

\* readSource; filename stands for the file it names.  The result is the
\* slice and the error returned and the number of reads of the file.
readSource(filename, src) ==
    IF ~src.nil
    THEN [input |-> src, err |-> FALSE, reads |-> 0]
    ELSE [input |-> IF filename.ok \/ filename.data # <<>>
                    THEN Bytes(filename.data) ELSE Nil,
          err |-> ~filename.ok, reads |-> 1]

\* the Renderer is driven by a walk directly, with default options
InitWith(b, terminals) ==
    /\ InitRenderer(b, terminals)
    /\ RenderNodeHook = FALSE
    /\ pc = "walk"
    /\ proc = ProcessData(Nil, [ok |-> TRUE, data |-> <<>>])

(***************************************************************************)
(* The callbacks, one action per node kind.                                *)
(***************************************************************************)
Document ==
    \/ CanEnter(Node("Document")) /\ Enter(Node("Document"), NoFormat)
    \/ CanLeave("Document") /\ Leave

Text(lits) ==
    \E lit \in lits :
       CanEnter(Lit("Text", lit)) /\ Enter(Lit("Text", lit), NoFormat)

Softbreak == CanEnter(Node("Softbreak")) /\ Enter(Node("Softbreak"), NoFormat)

Hardbreak == CanEnter(Node("Hardbreak")) /\ Enter(Node("Hardbreak"), NoFormat)

Emph(lits) ==
    \/ \E lit \in lits :
          CanEnter(Lit("Emph", lit)) /\ Enter(Lit("Emph", lit), NoFormat)
    \/ CanLeave("Emph") /\ Leave

Strong(lits) ==
    \/ \E lit \in lits :
          CanEnter(Lit("Strong", lit)) /\ Enter(Lit("Strong", lit), NoFormat)
    \/ CanLeave("Strong") /\ Leave

Del(lits) ==
    \/ \E lit \in lits :
          CanEnter(Lit("Del", lit)) /\ Enter(Lit("Del", lit), NoFormat)
    \/ CanLeave("Del") /\ Leave

BlockQuote(lits) ==
    \/ \E lit \in lits :
          CanEnter(Lit("BlockQuote", lit))
          /\ Enter(Lit("BlockQuote", lit), NoFormat)
    \/ CanLeave("BlockQuote") /\ Leave

Link(lits, dests) ==
    \/ \E lit \in lits, d \in dests, t \in Titles :
          LET node == [Lit("Link", lit) EXCEPT !.Destination = d, !.Title = t]
          IN CanEnter(node) /\ Enter(node, NoFormat)
    \/ CanLeave("Link") /\ Leave

Image(dests, titles) ==
    \/ \E d \in dests, t \in titles :
          LET node == [Node("Image") EXCEPT !.Destination = d, !.Title = t]
          IN CanEnter(node) /\ Enter(node, NoFormat)
    \/ CanLeave("Image") /\ Leave

Code(lits) ==
    \E lit \in lits :
       CanEnter(Lit("Code", lit)) /\ Enter(Lit("Code", lit), NoFormat)

CodeBlock(infos, lits) ==
    \E info \in infos, lit \in lits :
       \E gofmt \in FormatOutcomes(lit) :
          LET node == [Lit("CodeBlock", lit) EXCEPT !.Info = info]
          IN CanEnter(node) /\ Enter(node, gofmt)

Paragraph ==
    \/ CanEnter(Node("Paragraph")) /\ Enter(Node("Paragraph"), NoFormat)
    \/ CanLeave("Paragraph") /\ Leave

HTMLSpan(lits) ==
    \E lit \in lits :
       CanEnter(Lit("HTMLSpan", lit)) /\ Enter(Lit("HTMLSpan", lit), NoFormat)

HTMLBlock(lits) ==
    \E lit \in lits :
       CanEnter(Lit("HTMLBlock", lit)) /\ Enter(Lit("HTMLBlock", lit), NoFormat)

Heading ==
    \/ \E lv \in Levels :
          LET node == [Node("Heading") EXCEPT !.Level = lv]
          IN CanEnter(node) /\ Enter(node, NoFormat)
    \/ CanLeave("Heading") /\ Leave

HorizontalRule ==
    CanEnter(Node("HorizontalRule")) /\ Enter(Node("HorizontalRule"), NoFormat)

List ==
    \/ \E o \in BOOLEAN :
          LET node == [Node("List") EXCEPT !.ordered = o]
          IN CanEnter(node) /\ Enter(node, NoFormat)
    \/ CanLeave("List") /\ Leave

\* an item carries the ordered bit of its List; the parser flags the last
\* item of a List with ListItemEndOfList
ListItem(lits) ==
    \/ \E lit \in lits, o \in BOOLEAN, e \in BOOLEAN :
          LET node == [Lit("ListItem", lit) EXCEPT !.ordered = o,
                                                   !.endOfList = e]
          IN CanEnter(node) /\ Enter(node, NoFormat)
    \/ CanLeave("ListItem") /\ Leave

\* Process gets its source; on an error it returns nil and the error
ReadSource ==
    /\ pc = "read"
    /\ LET res == readSource(proc.file, proc.src)
       IN /\ proc' = [proc EXCEPT !.input = res.input, !.readErr = res.err,
                                   !.reads = @ + res.reads,
                                   !.err = res.err]
          /\ pc' = IF res.err THEN "done" ELSE "parse"
    /\ UNCHANGED <<w, listDepth, orderedListCounter, paragraph,
                   lastNormalText, lastOutputLen, Terminal, stack, nvisits,
                   budget, last, markers, formatCalls, RenderNodeHook>>

\* Process parses the input and makes the Renderer; md.Render starts
Parse ==
    /\ pc = "parse"
    /\ proc' = [proc EXCEPT !.parsed = TRUE]
    /\ pc' = "walk"
    /\ UNCHANGED <<w, listDepth, orderedListCounter, paragraph,
                   lastNormalText, lastOutputLen, Terminal, stack, nvisits,
                   budget, last, markers, formatCalls, RenderNodeHook>>

\* md.Render is done; Process returns the bytes written and no error
Return ==
    /\ \/ pc = "walk" /\ stack = <<>> /\ nvisits > 0
       \/ pc = "stopped"
    /\ proc' = [proc EXCEPT !.output = Bytes(w)]
    /\ pc' = "done"
    /\ UNCHANGED <<w, listDepth, orderedListCounter, paragraph,
                   lastNormalText, lastOutputLen, Terminal, stack, nvisits,
                   budget, last, markers, formatCalls, RenderNodeHook>>

\* the nodes the parser makes of an input that is not empty
Parsed(lits) ==
    /\ proc.input.bytes # <<>>
    /\ \/ Paragraph
       \/ Text(lits)

\* a node of a kind the type switch has no case for (ast.Table)
Table ==
    \/ CanEnter(Node("Table")) /\ Enter(Node("Table"), NoFormat)
    \/ CanLeave("Table") /\ Leave

(***************************************************************************)
(* Specifications.                                                         *)
(***************************************************************************)

\* a walk over a document of every kind of node but lists
Init == InitWith(MaxVisits, {FALSE})

Next ==
    \/ Document
    \/ Text(TextLits)
    \/ Softbreak
    \/ Hardbreak
    \/ Emph(ContentLits)
    \/ Strong({<<"c">>})
    \/ Del({<<"c">>})
    \/ BlockQuote({<<"q", NL>>, <<"q", NL, "r">>})
    \/ Link({<<"c">>}, {<<"u", BS>>})
    \/ Image({<<"u">>}, {<<"t">>})
    \/ Code({<<"c">>})
    \/ CodeBlock({Go}, {<<"x", SP, SP, "y", NL>>})
    \/ Paragraph
    \/ HTMLSpan(HTMLLits)
    \/ HTMLBlock({<<"<", "b", ">">>})
    \/ Heading
    \/ HorizontalRule

Spec == Init /\ [][Next]_vars

\* a walk over a document of Text nodes
InitText == InitWith(MaxTextVisits, {FALSE})

NextText == Document \/ Text(EscLits)

SpecText == InitText /\ [][NextText]_vars

\* a walk over a document of (nested) lists
InitList == InitWith(MaxListVisits, {FALSE})

NextList == Document \/ List \/ ListItem({<<"a", NL, "b">>})

SpecList == InitList /\ [][NextList]_vars

\* a walk over a document of code blocks
InitCode == InitWith(MaxCodeVisits, {FALSE})

NextCode == Document \/ CodeBlock(InfoStrings, CodeLits)

SpecCode == InitCode /\ [][NextCode]_vars

\* a walk over inline nodes, with and without terminal styling
InitInline == InitWith(MaxInlineVisits, BOOLEAN)

NextInline ==
    \/ Document
    \/ Text({<<"a">>, <<"*">>})
    \/ Emph(ContentLits)
    \/ Strong(ContentLits)

SpecInline == InitInline /\ [][NextInline]_vars

\* a walk of a Renderer with or without a RenderNodeHook
InitHook ==
    /\ InitRenderer(MaxHookVisits, {FALSE})
    /\ RenderNodeHook \in BOOLEAN
    /\ pc = "walk"
    /\ proc = ProcessData(Nil, [ok |-> TRUE, data |-> <<>>])

NextHook ==
    \/ Document
    \/ Text({<<"a">>})
    \/ Paragraph
    \/ HorizontalRule
    \/ List
    \/ Table

SpecHook == InitHook /\ [][NextHook]_vars

\* one call of Process with default options
InitProcess ==
    /\ InitRenderer(MaxProcessVisits, {FALSE})
    /\ RenderNodeHook = FALSE
    /\ pc = "read"
    /\ \E src \in Sources, file \in Files : proc = ProcessData(src, file)

NextProcess ==
    \/ ReadSource
    \/ Parse
    \/ Document
    \/ Parsed({<<"a">>})
    \/ Return

SpecProcess == InitProcess /\ [][NextProcess]_vars

\* a walk over paragraphs, lists and the text in and around them
InitLoose == InitWith(MaxLooseVisits, {FALSE})

NextLoose ==
    \/ Document
    \/ Paragraph
    \/ List
    \/ ListItem({<<>>})
    \/ Text({<<NL>>, <<"a">>})

SpecLoose == InitLoose /\ [][NextLoose]_vars

TypeOK ==
    /\ listDepth \in Nat
    /\ nvisits <= budget
    /\ Len(stack) <= MaxDepth
    /\ lastOutputLen <= Len(w)

\* the bytes the latest callback wrote
Written == SubSeq(w, last.before + 1, Len(w))

\* the bytes written since the latest node was entered
Subtree == SubSeq(w, last.start + 1, Len(w))

\* <<1, ..., n>>
UpTo(n) == [i \in 1..n |-> i]

(***************************************************************************)
(* Properties.                                                             *)
(***************************************************************************)

\* C1: an ordered List of n items that is the first child of the Document
\* (nesting depth 1, fresh Renderer) has printed, when the walk leaves it,
\* exactly n item markers, and they are 1, 2, ..., n in document order.
C1_OrderedItemsNumberedFromOne ==
    (/\ last.node.kind = "List"
     /\ ~last.entering
     /\ last.node.ordered
     /\ last.depth = 1
     /\ last.index = 1)
    => last.marks = UpTo(last.kids)

\* C2: an item of an ordered List nested in an item of an ordered List
\* prints its own place in the sublist (numbered from 1), and an item of
\* the parent List that follows a nested ordered sublist prints its own
\* place in the parent (k+1 after item k): the sublist does not change
\* the parent's counter.
C2_SublistKeepsParentCounter ==
    (/\ last.node.kind = "ListItem"
     /\ last.entering
     /\ last.node.ordered
     /\ \/ /\ last.depth = 2
           /\ \A i \in 1..Len(stack) :
                 stack[i].node.kind = "List" => stack[i].node.ordered
        \/ /\ last.depth = 1
           /\ stack[Len(stack) - 1].sub > 0)
    => last.marks = <<last.index>>

\* C3: a Text node whose literal is "." is written with a leading backslash
\* exactly when the Text fragment rendered just before it is a non-empty
\* run of ASCII digits; otherwise (a non-digit in the previous fragment, an
\* empty previous fragment, no previous fragment) it is written as a bare
\* ".".
C3_DotEscapedOnlyAfterDigits ==
    (last.node.kind = "Text" /\ last.node.Literal = <<".">>)
    => Written = IF last.prevText # <<>> /\
                    (\A i \in 1..Len(last.prevText) :
                        last.prevText[i] \in Digits)
                 THEN <<BS, ".">>
                 ELSE <<".">>

\* C4: a Text node whose whole literal is one structural character is
\* written as a backslash and that character; a literal "!" and every
\* literal longer than one byte are written without an added backslash
\* (as the whitespace-collapsed literal).
C4_StructuralCharacterEscaped ==
    last.node.kind = "Text"
    => LET lit == last.node.Literal
       IN /\ (Len(lit) = 1 /\ lit[1] \in Structural) => Written = <<BS>> \o lit
          /\ lit = <<"!">> => Written = lit
          /\ Len(lit) > 1 => Written = cleanWithoutTrim(lit)

C4_Witness ==
    /\ last.node.kind = "Text"
    /\ last.node.Literal = <<">">>
    /\ last.prevText = <<"a", "*">>
    /\ Written = <<BS, ">">>

\* C5: a block node rendered before anything has been written (and whose
\* literal does not itself begin with a newline) writes no newline ahead
\* of its content: the output does not begin with a newline.
C5_NoNewlineBeforeFirstBlock ==
    (/\ last.node.kind \in BlockKinds
     /\ last.before = 0
     /\ (last.node.Literal = <<>> \/ Head(last.node.Literal) # NL))
    => (Written = <<>> \/ Head(Written) # NL)

\* C6: format.Source is called for a CodeBlock exactly when the fence
\* language tag (the first non-empty field of the info string, one leading
\* "." cut) is "go" or "Go".
C6_FormatterChosenByFenceTag ==
    last.node.kind = "CodeBlock"
    => (last.called <=> FenceTag(last.node.Info) \in {<<"g", "o">>, <<"G", "o">>})

\* C7: when the formatter fails on a CodeBlock or is not called, the call
\* writes the blank line, the opening fence line, exactly the node's
\* literal and the closing fence line, and RenderNode returns GoToNext.
C7_FormatFailureEmitsLiteral ==
    (last.node.kind = "CodeBlock" /\ ~(last.called /\ last.gofmt.ok))
    => /\ Written = <<NL, BQ, BQ, BQ>> \o FenceTag(last.node.Info) \o <<NL>>
                    \o last.node.Literal \o <<BQ, BQ, BQ, NL>>
       /\ last.status = GoToNext

C7_Witness ==
    /\ last.node.kind = "CodeBlock"
    /\ last.node.Info = <<"g", "o">>
    /\ last.called
    /\ ~last.gofmt.ok
    /\ last.node.Literal = <<"x", SP, SP, "y", NL>>
    /\ Written = <<NL, BQ, BQ, BQ, "g", "o", NL, "x", SP, SP, "y", NL,
                   BQ, BQ, BQ, NL>>

\* C8: a visit (entering or leaving) of an Emph node whose literal is empty
\* writes no byte.
C8_EmptyEmphasisWritesNothing ==
    (last.node.kind = "Emph" /\ last.node.Literal = <<>>)
    => (Len(w) = last.before /\ Written = <<>>)

C8_Witness ==
    /\ last.node.kind = "Emph"
    /\ last.node.Literal = <<>>
    /\ ~last.entering
    /\ last.before > 0
    /\ Len(w) = last.before

\* C9: the bytes written for the subtree of a Strong node with content c
\* and no children are ** c ** with each marker once, between ESC[1m and
\* ESC[0m when Terminal is set and with no escape sequence otherwise.
C9_StrongMarkersOnce ==
    (last.node.kind = "Strong" /\ ~last.entering /\ last.kids = 0)
    => Subtree = (IF Terminal THEN <<ESC, "[", "1", "m">> ELSE <<>>)
                 \o <<"*", "*">> \o last.node.Literal \o <<"*", "*">>
                 \o (IF Terminal THEN <<ESC, "[", "0", "m">> ELSE <<>>)

\* C10: a HorizontalRule callback ends the output with the three dashes
\* and a newline, and the byte ahead of the dashes is a newline.
C10_RuleOnItsOwnLine ==
    last.node.kind = "HorizontalRule"
    => LET n == Len(w)
       IN /\ n >= last.before + 4
          /\ n >= 5
          /\ SubSeq(w, n - 4, n) = <<NL, "-", "-", "-", NL>>

C10_Witness ==
    /\ last.node.kind = "HorizontalRule"
    /\ last.before > 0
    /\ w[last.before] # NL
    /\ Written = <<NL, "-", "-", "-", NL>>

\* one node of every kind, with content
Samples ==
    {Lit("Text", <<"a">>), Lit("Text", <<NL>>), Node("Softbreak"),
     Node("Hardbreak"), Lit("Emph", <<"c">>), Lit("Strong", <<"c">>),
     Lit("Del", <<"c">>), Lit("BlockQuote", <<"q", NL>>),
     [Lit("Link", <<"c">>) EXCEPT !.Destination = <<"u">>, !.Title = <<"t">>],
     [Node("Image") EXCEPT !.Destination = <<"u">>, !.Title = <<"t">>],
     Lit("Code", <<"c">>), [Lit("CodeBlock", <<"x", NL>>) EXCEPT !.Info = Go],
     Node("Document"), Node("Paragraph"), Lit("HTMLSpan", <<"<", "b", ">">>),
     Lit("HTMLBlock", <<"<", "b", ">">>),
     [Node("Heading") EXCEPT !.Level = 3], Node("HorizontalRule"),
     [Node("List") EXCEPT !.ordered = TRUE],
     [Lit("ListItem", <<"a">>) EXCEPT !.ordered = TRUE], Node("Table")}

\* the fields of the Renderer and the bytes of w
RendererState(r) ==
    <<r.w, r.listDepth, r.orderedListCounter, r.paragraph, r.lastNormalText,
      r.lastOutputLen>>

\* C11: at a callback the installed hook handled, RenderNode writes nothing
\* itself (w grows by the hook's own bytes only), listDepth, the counters,
\* the paragraph flags, lastNormalText and lastOutputLen keep their values
\* and the status returned is the hook's; at a callback the hook did not
\* handle, the Renderer and the status end as they do with no hook set.
C11_HandledNodeNotRendered ==
    [][nvisits' = nvisits + 1 /\ RenderNodeHook
       => IF last'.handled
          THEN /\ w' = w \o last'.hook.bytes
               /\ listDepth' = listDepth
               /\ orderedListCounter' = orderedListCounter
               /\ paragraph' = paragraph
               /\ lastNormalText' = lastNormalText
               /\ lastOutputLen' = lastOutputLen
               /\ last'.status = last'.hook.status
          ELSE LET plain == RenderNode([R EXCEPT !.RenderNodeHook = FALSE],
                                       last'.node, last'.entering,
                                       last'.gofmt, NoHook)
               IN /\ RendererState(R') = RendererState(plain.r)
                  /\ last'.status = plain.status]_vars

\* a List the hook handled with SkipChildren: no byte, no counter
C11_Witness ==
    /\ RenderNodeHook
    /\ last.handled
    /\ last.node.kind = "List"
    /\ last.node.ordered
    /\ last.entering
    /\ last.status = SkipChildren
    /\ Written = <<>>
    /\ orderedListCounter = <<>>

\* C12 as stated: every callback returns GoToNext, whatever the node kind,
\* the direction and the Renderer; no subtree is skipped and the walk is
\* never stopped.
C12_AlwaysGoToNext ==
    /\ last.status = GoToNext
    /\ pc = "walk"
    /\ \A i \in 1..Len(stack) : ~stack[i].skip

\* C12, amended: every callback that no installed hook handled returns
\* GoToNext, whatever the node kind and the direction, and one for a
\* Document or a kind without a case writes nothing of its own; in every
\* state reached a call for a node of any kind that the hook does not
\* handle would return GoToNext; with no hook set no subtree is skipped
\* and the walk is never stopped.
C12_GoToNextUnlessHandled ==
    /\ ~last.handled
       => /\ last.status = GoToNext
          /\ last.node.kind \in {"Document", "Table", "None"}
             => Written = last.hook.bytes
    /\ \A node \in Samples, entering \in BOOLEAN, h \in HookChoices :
          ~h.didHandle
          => RenderNode(R, node, entering, NoFormat, h).status = GoToNext
    /\ ~RenderNodeHook
       => /\ pc = "walk"
          /\ \A i \in 1..Len(stack) : ~stack[i].skip

\* the leaving visit of a node without a case, inside a Document, that the
\* installed hook did not handle
C12_Witness ==
    /\ RenderNodeHook
    /\ ~last.handled
    /\ last.node.kind = "Table"
    /\ ~last.entering
    /\ last.kids = 1
    /\ last.status = GoToNext
    /\ pc = "walk"

\* C13: when src is not nil the file is never read and Process returns no
\* error; when src is nil and the read fails Process has returned the
\* error and a nil output, and neither the parser nor any callback ran;
\* an error is returned only after a failed read of the file with src nil.
C13_ErrorOnlyFromFileRead ==
    /\ ~proc.src.nil => (proc.reads = 0 /\ ~proc.err)
    /\ (pc = "done" /\ proc.src.nil /\ ~proc.file.ok)
       => /\ proc.err
          /\ proc.output.nil
          /\ ~proc.parsed
          /\ nvisits = 0
          /\ w = <<>>
    /\ proc.err => (proc.src.nil /\ ~proc.file.ok /\ proc.reads = 1)
    /\ (pc = "done" /\ ~proc.err)
       => (proc.parsed /\ ~proc.output.nil /\ proc.output.bytes = w)

\* Process returned the error of a read that failed after some bytes
C13_Witness ==
    /\ pc = "done"
    /\ proc.src.nil
    /\ ~proc.file.ok
    /\ proc.input = Bytes(<<"a">>)
    /\ proc.reads = 1
    /\ proc.err
    /\ proc.output.nil

\* C15: between callbacks listDepth is the number of Lists entered and not
\* yet left, so every callback for a node inside k open Lists runs with
\* listDepth = k, listDepth is never negative, and it is back at its old
\* value once a List has been left.
C15_ListDepthCountsOpenLists ==
    /\ listDepth >= 0
    /\ listDepth = ListsOpen(stack)

\* C16: a Text callback whose literal is exactly the newline writes
\* nothing when the node is inside a List and one space when it is inside
\* none, and leaves lastNormalText equal to the newline literal.
C16_NewlineTextInsideList ==
    (last.node.kind = "Text" /\ last.node.Literal = <<NL>>)
    => /\ Written = (IF last.depth > 0 THEN <<>> ELSE <<SP>>)
       /\ lastNormalText = <<NL>>

\* s ends with an empty line
EndsBlank(s) == Len(s) >= 2 /\ s[Len(s)] = NL /\ s[Len(s) - 1] = NL

\* s holds an empty line
HasBlank(s) == \E i \in 1..(Len(s) - 1) : s[i] = NL /\ s[i + 1] = NL

\* C17: when the walk leaves a ListItem, the item's output ends with an
\* extra empty line exactly when a Paragraph is among the item's children
\* and the item is not flagged as the last of its List; the bytes of an
\* item without children hold no empty line at all; and the paragraph flag
\* of the current depth is clear after the item.
C17_BlankLineOnlyAfterOwnParagraph ==
    (last.node.kind = "ListItem" /\ ~last.entering)
    => /\ EndsBlank(Written) <=> (last.paras > 0 /\ ~last.node.endOfList)
       /\ last.kids = 0 => ~HasBlank(Subtree)
       /\ ~FlagAt(paragraph, listDepth)

\* the elements of a split but a trailing empty one
KeptLines(lines) ==
    IF lines[Len(lines)] = <<>> THEN SubSeq(lines, 1, Len(lines) - 1)
    ELSE lines

\* every line from the i-th on, quoted: "> " and the line, a bare ">" for an
\* empty line, and a newline
RECURSIVE Quoted(_, _)
Quoted(lines, i) ==
    IF i > Len(lines) THEN <<>>
    ELSE (IF lines[i] = <<>> THEN <<">">> ELSE <<">", SP>> \o lines[i])
         \o <<NL>> \o Quoted(lines, i + 1)

\* C18: a BlockQuote callback writes, after the separating newline, every
\* line of the node's literal in order, quoted; of the elements of the
\* split at newlines only a trailing empty one is left out, whether or not
\* the literal ends with a newline.
C18_EveryLineQuoted ==
    last.node.kind = "BlockQuote"
    => Written = <<NL>> \o Quoted(KeptLines(SplitLines(last.node.Literal)), 1)

\* C19: a Softbreak callback writes exactly one newline when at least one
\* byte has been written to w before it, and nothing only when w is still
\* empty.
C19_SoftbreakAfterAnyOutput ==
    last.node.kind = "Softbreak"
    => Written = (IF last.before > 0 THEN <<NL>> ELSE <<>>)

\* C20 as stated: in every state of the Renderer and for every node, the
\* call with entering = TRUE and the call with entering = FALSE end with
\* the same bytes written, the same fields and the same status, whatever
\* the hook (which is passed the flag) answers to each of the two calls.
C20_DirectionIgnored ==
    \A node \in Samples : \A hT \in HookChoices, hF \in HookChoices :
       RenderNode(R, node, TRUE, NoFormat, hT)
       = RenderNode(R, node, FALSE, NoFormat, hF)

\* C20, amended: with no hook set, in every state of the Renderer and for
\* every node the call with entering = TRUE and the call with
\* entering = FALSE end with the same bytes written, the same fields and
\* the same status; a Paragraph without children has run its emission
\* twice when the walk has left it.
C20_DirectionIgnoredWithoutHook ==
    ~RenderNodeHook
    => /\ \A node \in Samples :
          \A gofmt \in {NoFormat, [ok |-> TRUE, code |-> <<"y", NL>>]} :
             RenderNode(R, node, TRUE, gofmt, NoHook)
             = RenderNode(R, node, FALSE, gofmt, NoHook)
       /\ (last.node.kind = "Paragraph" /\ ~last.entering /\ last.kids = 0)
          => (Written # <<>> /\ Subtree = Written \o Written)

\* a Paragraph without children left by the walk of a Renderer without hook
C20_Witness ==
    /\ ~RenderNodeHook
    /\ last.node.kind = "Paragraph"
    /\ ~last.entering
    /\ last.kids = 0
    /\ Subtree = <<NL, NL, NL, NL>>

====
